---- MODULE Spec2Model ----
(***************************************************************************)
(* Household-appliance energy calculator: the appliance model, the energy  *)
(* calculator, the SQLite record store and the main() pipeline.            *)
(*                                                                         *)
(* Numbers.  The program computes in floating point; the model computes    *)
(* the same expressions exactly, as integer numerators over fixed          *)
(* denominators:                                                           *)
(*   power   : whole watts                                                 *)
(*   hours   : multiples of 1/HoursScale hour                              *)
(*   tariff  : multiples of 1/TariffScale currency unit per kWh            *)
(*   energy  : (power/1000)*hours = power*hours / KwhDen  kWh              *)
(*   cost    : energy*tariff      = power*hours*tariff / CostDen           *)
(*   round(x, 3) is a whole number of thousandths, round(x, 2) of          *)
(*   hundredths; ties go to the even neighbour, as Python's round() does.  *)
(***************************************************************************)
EXTENDS Integers, Sequences, FiniteSets, TLC

VARIABLES
    appliances,           \* the list of Appliance objects (shared with the calculator)
    calculator,           \* the EnergyCalculator: [exists, tariff_kwh]
    ret,                  \* outcome of the last call made on an object
    db,                   \* the SQLite connection and the consumption_records table
    now,                  \* the wall clock read by datetime.now()
    log,                  \* the calls made on the store and the reporters, in order
    pc,                   \* main(): the statement reached
    db_manager,           \* main(): db_manager is not None
    user_input,           \* main(): what get_user_input() returned
    calculation_results,  \* main(): the outcome of the calculation
    detail_index,         \* main(): position of the save loop in the details
    exit_status           \* main(): "running", "normal", or the unhandled error

objVars == <<appliances, calculator, ret>>
dbVars == <<db, now, log>>
mainVars == <<pc, db_manager, user_input, calculation_results, detail_index,
              exit_status>>
vars == <<appliances, calculator, ret, db, now, log, pc, db_manager,
          user_input, calculation_results, detail_index, exit_status>>

\* ---------------------------------------------------------------- bounds
\* appliances in the list; hours are counted in 1/HoursScale hour and
\* tariffs in 1/TariffScale currency unit
MaxAppliances == 2
HoursScale == 4
TariffScale == 100

\* ------------------------------------------------------------- constants
WattsPerKw == 1000
KwhDigits == 3
CostDigits == 2

KwhDen == WattsPerKw * HoursScale
CostDen == KwhDen * TariffScale

RECURSIVE Pow10(_)
Pow10(n) == IF n = 0 THEN 1 ELSE 10 * Pow10(n - 1)

\* num/den rounded to a whole number, ties to the even neighbour
RoundHalfEven(num, den) ==
    LET q == num \div den
        r == num % den
    IN  IF 2 * r < den THEN q
        ELSE IF 2 * r > den THEN q + 1
        ELSE IF q % 2 = 0 THEN q ELSE q + 1

\* round(num/den, digits) as a whole number of 10^-digits
Round(num, den, digits) ==
    LET p == Pow10(digits)
    IN  IF den % p = 0 THEN RoundHalfEven(num, den \div p)
        ELSE RoundHalfEven(num * p, den)

Abs(x) == IF x < 0 THEN -x ELSE x

\* ---------------------------------------------------------------- inputs
\* constructor arguments tried: valid ones of each variant, then one invalid
\* argument of each validated kind
ApplianceArgs ==
    { [kind |-> "Iron", name |-> "a", power |-> 2000, steam_booster |-> TRUE,
       screen_size_inches |-> 0, capacity_kg |-> 0],
      [kind |-> "Iron", name |-> "b", power |-> 1, steam_booster |-> FALSE,
       screen_size_inches |-> 0, capacity_kg |-> 0],
      [kind |-> "TV", name |-> "a", power |-> 1, steam_booster |-> FALSE,
       screen_size_inches |-> 55, capacity_kg |-> 0],
      [kind |-> "TV", name |-> "b", power |-> 150, steam_booster |-> FALSE,
       screen_size_inches |-> 32, capacity_kg |-> 0],
      [kind |-> "WashingMachine", name |-> "b", power |-> 2000, steam_booster |-> FALSE,
       screen_size_inches |-> 0, capacity_kg |-> 7],
      [kind |-> "Iron", name |-> "", power |-> 2000, steam_booster |-> FALSE,
       screen_size_inches |-> 0, capacity_kg |-> 0],
      [kind |-> "TV", name |-> "a", power |-> 0, steam_booster |-> FALSE,
       screen_size_inches |-> 55, capacity_kg |-> 0],
      [kind |-> "TV", name |-> "a", power |-> 150, steam_booster |-> FALSE,
       screen_size_inches |-> 0, capacity_kg |-> 0],
      [kind |-> "WashingMachine", name |-> "b", power |-> 2000, steam_booster |-> FALSE,
       screen_size_inches |-> 0, capacity_kg |-> -1] }

\* hours, in 1/HoursScale hour: negative, zero, a fraction, whole hours
HoursArgs == {-HoursScale, 0, 1, 2 * HoursScale}
\* tariffs, in 1/TariffScale: negative, zero, 0.15-like, ten and a hundred
TariffArgs == {-15, 0, 15, 10 * TariffScale, 100 * TariffScale}

\* ------------------------------------------------------------ appliances
\* Appliance.__init__: the shared validation of name and power
ApplianceInit(name, power) ==
    IF name = "" THEN "ValueError"
    ELSE IF power <= 0 THEN "ValueError"
    ELSE "ok"

IronInit(a) == ApplianceInit(a.name, a.power)

TVInit(a) ==
    IF ApplianceInit(a.name, a.power) # "ok" THEN "ValueError"
    ELSE IF a.screen_size_inches <= 0 THEN "ValueError"
    ELSE "ok"

WashingMachineInit(a) ==
    IF ApplianceInit(a.name, a.power) # "ok" THEN "ValueError"
    ELSE IF a.capacity_kg <= 0 THEN "ValueError"
    ELSE "ok"

Construct(a) ==
    CASE a.kind = "Iron" -> IronInit(a)
      [] a.kind = "TV" -> TVInit(a)
      [] a.kind = "WashingMachine" -> WashingMachineInit(a)

\* the object a successful constructor leaves: off
NewObject(a) ==
    [kind |-> a.kind, name |-> a.name, power |-> a.power,
     steam_booster |-> a.steam_booster,
     screen_size_inches |-> a.screen_size_inches,
     capacity_kg |-> a.capacity_kg, is_on |-> FALSE]

\* calculate_energy_consumption returns [status, value], value the numerator
\* of the energy over KwhDen

\* variant: an iron whose steam booster doubles the draw
IronEnergyBoosted(app, hours) ==
    IF ~app.is_on THEN [status |-> "ok", value |-> 0]
    ELSE IF hours < 0 THEN [status |-> "ValueError", value |-> 0]
    ELSE [status |-> "ok",
          value |-> IF app.steam_booster THEN 2 * app.power * hours
                    ELSE app.power * hours]

\* Iron.calculate_energy_consumption
IronEnergy(app, hours) ==
    IF ~app.is_on THEN [status |-> "ok", value |-> 0]
    ELSE IF hours < 0 THEN [status |-> "ValueError", value |-> 0]
    ELSE [status |-> "ok", value |-> app.power * hours]

TVEnergy(app, hours) ==
    IF ~app.is_on THEN [status |-> "ok", value |-> 0]
    ELSE IF hours < 0 THEN [status |-> "ValueError", value |-> 0]
    ELSE [status |-> "ok", value |-> app.power * hours]

WashingMachineEnergy(app, hours) ==
    IF ~app.is_on THEN [status |-> "ok", value |-> 0]
    ELSE IF hours < 0 THEN [status |-> "ValueError", value |-> 0]
    ELSE [status |-> "ok", value |-> app.power * hours]

\* the polymorphic call appliance.calculate_energy_consumption(hours)
CalculateEnergyConsumption(app, hours) ==
    CASE app.kind = "Iron" -> IronEnergy(app, hours)
      [] app.kind = "TV" -> TVEnergy(app, hours)
      [] app.kind = "WashingMachine" -> WashingMachineEnergy(app, hours)

\* ------------------------------------------------------------ calculator
\* EnergyCalculator.__init__'s check of tariff_kwh
InitTariffCheck(value) == IF value < 0 THEN "ValueError" ELSE "ok"

\* variant: a setter that assigns without checking
SetterTariffCheckNone(value) == "ok"

\* the tariff_kwh setter's check of value
SetterTariffCheck(value) == IF value < 0 THEN "ValueError" ELSE "ok"

\* variant: a loop that appends no detail entry for an appliance that is off
RECURSIVE CalcLoopSkipsOff(_, _, _, _)
CalcLoopSkipsOff(apps, tariff, period, i) ==
    IF i = 0
    THEN [total_consumption_kwh |-> 0, total_cost |-> 0, details |-> <<>>]
    ELSE LET acc == CalcLoopSkipsOff(apps, tariff, period, i - 1)
             appliance == apps[i]
         IN  IF appliance.is_on
             THEN LET consumption_kwh ==
                          CalculateEnergyConsumption(appliance, period).value
                      cost == consumption_kwh * tariff
                  IN  [total_consumption_kwh |->
                           acc.total_consumption_kwh + consumption_kwh,
                       total_cost |-> acc.total_cost + cost,
                       details |-> Append(acc.details,
                           [name |-> appliance.name,
                            consumption_kwh |->
                                Round(consumption_kwh, KwhDen, KwhDigits),
                            cost |-> Round(cost, CostDen, CostDigits)])]
             ELSE acc

\* the for loop of calculate_total_consumption_and_cost over the first i
\* appliances: the running totals (unrounded numerators) and the details
RECURSIVE CalcLoop(_, _, _, _)
CalcLoop(apps, tariff, period, i) ==
    IF i = 0
    THEN [total_consumption_kwh |-> 0, total_cost |-> 0, details |-> <<>>]
    ELSE LET acc == CalcLoop(apps, tariff, period, i - 1)
             appliance == apps[i]
         IN  IF appliance.is_on
             THEN LET consumption_kwh ==
                          CalculateEnergyConsumption(appliance, period).value
                      cost == consumption_kwh * tariff
                  IN  [total_consumption_kwh |->
                           acc.total_consumption_kwh + consumption_kwh,
                       total_cost |-> acc.total_cost + cost,
                       details |-> Append(acc.details,
                           [name |-> appliance.name,
                            consumption_kwh |->
                                Round(consumption_kwh, KwhDen, KwhDigits),
                            cost |-> Round(cost, CostDen, CostDigits)])]
             ELSE [acc EXCEPT !.details = Append(@,
                           [name |-> appliance.name,
                            consumption_kwh |-> 0, cost |-> 0])]

\* variant: the total cost cut to whole hundredths instead of rounded
CalcReturnTruncated(acc) ==
    [total_consumption_kwh |->
         Round(acc.total_consumption_kwh, KwhDen, KwhDigits),
     total_cost |-> acc.total_cost \div (CostDen \div Pow10(CostDigits)),
     details |-> acc.details]

\* the returned dict, from the loop's totals
CalcReturn(acc) ==
    [total_consumption_kwh |->
         Round(acc.total_consumption_kwh, KwhDen, KwhDigits),
     total_cost |-> Round(acc.total_cost, CostDen, CostDigits),
     details |-> acc.details]

\* calculate_total_consumption_and_cost as a function of the calculator's
\* state: [status, result, acc]
CalculateTotalConsumptionAndCost(apps, tariff, period_hours) ==
    IF period_hours < 0
    THEN [status |-> "ValueError",
          result |-> CalcReturn(CalcLoop(apps, tariff, 0, 0)),
          acc |-> CalcLoop(apps, tariff, 0, 0)]
    ELSE LET acc == CalcLoop(apps, tariff, period_hours, Len(apps))
         IN  [status |-> "ok", result |-> CalcReturn(acc), acc |-> acc]

\* ------------------------------------------------------------ the store
\* db.conn: "none" (never connected), "open", "closed"
\* db.committed: the rows of consumption_records on disk, in rowid order
\* db.pending: rows inserted by this connection and not yet committed
NoStore == [conn |-> "none", committed |-> <<>>, pending |-> <<>>]

\* the rows a statement on this connection sees
Visible(d) == d.committed \o d.pending

\* id INTEGER PRIMARY KEY AUTOINCREMENT: rows are never deleted
NextId(d) == Len(Visible(d)) + 1

\* the row INSERT writes for save_record's arguments f at timestamp ts
Row(d, f, ts) ==
    [id |-> NextId(d),
     appliance_name |-> f.appliance_name,
     power_consumption_watts |-> f.power_consumption_watts,
     hours_used |-> f.hours_used,
     consumption_kwh |-> f.consumption_kwh,
     cost |-> f.cost,
     tariff |-> f.tariff,
     timestamp |-> ts]

\* how a save_record call can end: both statements succeed; execute raises
\* (nothing inserted); commit raises with the transaction left open (busy
\* database) or rolled back (disk full, I/O error)
SaveOutcomes == {"ok", "execute_error", "commit_error_open", "commit_error_rollback"}

\* save_record on a closed connection raises sqlite3.ProgrammingError
SaveOutcome(d, outcome) == IF d.conn = "open" THEN outcome ELSE "execute_error"

\* DatabaseManager.save_record: the store it leaves
SaveRecord(d, f, ts, outcome) ==
    CASE SaveOutcome(d, outcome) = "ok" ->
             [d EXCEPT !.committed = Visible(d) \o <<Row(d, f, ts)>>,
                       !.pending = <<>>]
      [] SaveOutcome(d, outcome) = "execute_error" -> d
      [] SaveOutcome(d, outcome) = "commit_error_open" ->
             [d EXCEPT !.pending = Append(@, Row(d, f, ts))]
      [] SaveOutcome(d, outcome) = "commit_error_rollback" ->
             [d EXCEPT !.pending = <<>>]

\* save_record returns None or re-raises the sqlite3.Error
SaveStatus(d, outcome) == IF SaveOutcome(d, outcome) = "ok" THEN "ok" ELSE "error"

\* ORDER BY timestamp DESC: every ordering of the rows with non-increasing
\* timestamps; SQLite leaves the order of rows with equal keys unspecified
OrderedByTimestampDesc(rows) ==
    { [i \in 1..Len(rows) |-> rows[p[i]]] : p \in
        { q \in Permutations(1..Len(rows)) :
            \A i, j \in 1..Len(rows) :
                i < j => rows[q[i]].timestamp >= rows[q[j]].timestamp } }

\* DatabaseManager.get_all_records: the lists it can return; a sqlite3.Error
\* (a closed connection included) is caught and gives []
GetAllRecords(d, outcome) ==
    IF d.conn = "open" /\ outcome = "ok"
    THEN OrderedByTimestampDesc(Visible(d))
    ELSE {<<>>}

\* DatabaseManager.close: uncommitted rows are rolled back
CloseConn(d) ==
    IF d.conn = "none" THEN d
    ELSE [d EXCEPT !.conn = "closed", !.pending = <<>>]

\* datetime.now(): the wall clock, which does not run backwards here and may
\* return the value it returned before
ClockReadings == {now, now + 1}

\* ---------------------------------------------- calls on the store alone
\* calls made on one DatabaseManager
MaxCalls == 3

\* arguments of save_record tried
RecordArgs ==
    { [appliance_name |-> "a", power_consumption_watts |-> 2000, hours_used |-> 8,
       consumption_kwh |-> 4000, cost |-> 60, tariff |-> 15],
      [appliance_name |-> "b", power_consumption_watts |-> 150, hours_used |-> 4,
       consumption_kwh |-> 0, cost |-> 0, tariff |-> 20] }

DbSave(f, ts, outcome) ==
    /\ Len(log) < MaxCalls
    /\ db' = SaveRecord(db, f, ts, outcome)
    /\ now' = ts
    /\ log' = Append(log, [op |-> "save_record", status |-> SaveStatus(db, outcome),
                           detail |-> 0, row |-> Row(db, f, ts)])
    /\ ret' = [op |-> "save_record", status |-> SaveStatus(db, outcome)]

DbGetAll(outcome) ==
    /\ Len(log) < MaxCalls
    /\ \E records \in GetAllRecords(db, outcome) :
           ret' = [op |-> "get_all_records",
                   status |-> IF db.conn = "open" THEN outcome ELSE "error",
                   records |-> records]
    /\ log' = Append(log, [op |-> "get_all_records"])
    /\ UNCHANGED <<db, now>>

DbClose ==
    /\ Len(log) < MaxCalls
    /\ db' = CloseConn(db)
    /\ log' = Append(log, [op |-> "close"])
    /\ ret' = [op |-> "close", status |-> "ok"]
    /\ UNCHANGED now

\* --------------------------------------------------- calls on the objects
NoCall == [op |-> "none"]

\* Iron(...), TV(...), WashingMachine(...); the caller appends the new
\* object to its list
NewAppliance(a) ==
    /\ Len(appliances) < MaxAppliances
    /\ IF Construct(a) = "ok"
       THEN /\ appliances' = Append(appliances, NewObject(a))
            /\ ret' = [op |-> "new_appliance", status |-> "ok"]
       ELSE /\ appliances' = appliances
            /\ ret' = [op |-> "new_appliance", status |-> "ValueError"]
    /\ UNCHANGED calculator

TurnOn(i) ==
    /\ i \in 1..Len(appliances)
    /\ appliances' = [appliances EXCEPT ![i].is_on = TRUE]
    /\ ret' = [op |-> "turn_on", status |-> "ok", index |-> i]
    /\ UNCHANGED calculator

TurnOff(i) ==
    /\ i \in 1..Len(appliances)
    /\ appliances' = [appliances EXCEPT ![i].is_on = FALSE]
    /\ ret' = [op |-> "turn_off", status |-> "ok", index |-> i]
    /\ UNCHANGED calculator

\* appliances[i].calculate_energy_consumption(hours)
EnergyCall(i, hours) ==
    /\ i \in 1..Len(appliances)
    /\ LET r == CalculateEnergyConsumption(appliances[i], hours)
       IN  ret' = [op |-> "energy", status |-> r.status, index |-> i,
                   hours |-> hours, value |-> r.value]
    /\ UNCHANGED <<appliances, calculator>>

\* EnergyCalculator(appliances, tariff)
NewCalculator(tariff) ==
    /\ ~calculator.exists
    /\ IF InitTariffCheck(tariff) = "ok"
       THEN calculator' = [exists |-> TRUE, tariff_kwh |-> tariff]
       ELSE calculator' = calculator
    /\ ret' = [op |-> "new_calculator", status |-> InitTariffCheck(tariff),
               value |-> tariff]
    /\ UNCHANGED appliances

\* calculator.tariff_kwh = value
SetTariff(value) ==
    /\ calculator.exists
    /\ IF SetterTariffCheck(value) = "ok"
       THEN calculator' = [calculator EXCEPT !.tariff_kwh = value]
       ELSE calculator' = calculator
    /\ ret' = [op |-> "set_tariff", status |-> SetterTariffCheck(value),
               value |-> value]
    /\ UNCHANGED appliances

\* the result of the call, with whether the previous call was the same one
CalcRet(period_hours) ==
    LET r == CalculateTotalConsumptionAndCost(appliances,
                 calculator.tariff_kwh, period_hours)
    IN  [op |-> "calc", status |-> r.status, period_hours |-> period_hours,
         result |-> r.result, acc |-> r.acc,
         again |-> (ret.op = "calc" /\ ret.period_hours = period_hours)]

\* variant: a calculation that switches the appliances off behind itself
CalculateSwitchingOff(period_hours) ==
    /\ calculator.exists
    /\ ret' = CalcRet(period_hours)
    /\ appliances' = [i \in 1..Len(appliances) |->
                          [appliances[i] EXCEPT !.is_on = FALSE]]
    /\ UNCHANGED calculator

\* calculator.calculate_total_consumption_and_cost(period_hours)
Calculate(period_hours) ==
    /\ calculator.exists
    /\ ret' = CalcRet(period_hours)
    /\ UNCHANGED <<appliances, calculator>>

NoInput == [valid |-> FALSE, tariff |-> 0, period_hours |-> 0]
NoResults == [status |-> "none"]

\* the objects alone: no store, main() not running
ObjInit ==
    /\ appliances = <<>>
    /\ calculator = [exists |-> FALSE, tariff_kwh |-> 0]
    /\ ret = NoCall
    /\ db = NoStore
    /\ now = 0
    /\ log = <<>>
    /\ pc = "idle"
    /\ db_manager = FALSE
    /\ user_input = NoInput
    /\ calculation_results = NoResults
    /\ detail_index = 0
    /\ exit_status = "running"

ObjNext ==
    \/ \E a \in ApplianceArgs : NewAppliance(a) /\ UNCHANGED <<dbVars, mainVars>>
    \/ \E i \in 1..MaxAppliances : TurnOn(i) /\ UNCHANGED <<dbVars, mainVars>>
    \/ \E i \in 1..MaxAppliances : TurnOff(i) /\ UNCHANGED <<dbVars, mainVars>>
    \/ \E i \in 1..MaxAppliances, h \in HoursArgs :
           EnergyCall(i, h) /\ UNCHANGED <<dbVars, mainVars>>
    \/ \E t \in TariffArgs : NewCalculator(t) /\ UNCHANGED <<dbVars, mainVars>>
    \/ \E t \in TariffArgs : SetTariff(t) /\ UNCHANGED <<dbVars, mainVars>>
    \/ \E h \in HoursArgs : Calculate(h) /\ UNCHANGED <<dbVars, mainVars>>

Spec == ObjInit /\ [][ObjNext]_vars

\* ------------------------------------------------- claims on the objects
\* C1: for every appliance variant and every negative hours value,
\* calculate_energy_consumption(hours) fails with a validation error, whether
\* the appliance is on or off.
C1_NegativeHoursRejected ==
    (ret.op = "energy" /\ ret.hours < 0) => ret.status = "ValueError"

\* C2: after any turn_on/turn_off calls, calculate_energy_consumption(h) with
\* h >= 0 returns 0 when the appliance is off and exactly (P/1000)*h when it
\* is on (ret.value is the numerator over KwhDen), whatever the variant and
\* its descriptive attribute.
C2_EnergyLinear ==
    (ret.op = "energy" /\ ret.hours >= 0) =>
        /\ ret.status = "ok"
        /\ ret.value = IF appliances[ret.index].is_on
                       THEN appliances[ret.index].power * ret.hours
                       ELSE 0

C2_Witness ==
    /\ ret.op = "energy"
    /\ ret.hours > 0
    /\ appliances[ret.index].is_on
    /\ appliances[ret.index].steam_booster
    /\ ret.value = 2000 * ret.hours

\* |total_cost - tariff * total_consumption_kwh| of a returned result, in
\* units of 1/(10^KwhDigits * TariffScale)
CostGap(result, tariff) ==
    Abs(result.total_cost * (Pow10(KwhDigits) \div Pow10(CostDigits)) * TariffScale
        - tariff * result.total_consumption_kwh)

\* 0.01 in the units of CostGap
Tolerance == (Pow10(KwhDigits) \div Pow10(CostDigits)) * TariffScale

\* C3 (as stated): for any appliance set, any non-negative tariff and period,
\* the returned total_cost differs from tariff * total_consumption_kwh by at
\* most 0.01.
C3_CostWithinCent ==
    (ret.op = "calc" /\ ret.status = "ok") =>
        CostGap(ret.result, calculator.tariff_kwh) <= Tolerance

\* C3 (amended): the returned total_cost differs from tariff *
\* total_consumption_kwh by at most 0.005 + 0.0005 * tariff (half a unit of
\* each rounding), which is within 0.01 when the tariff is at most 10.
C3_CostWithinRounding ==
    (ret.op = "calc" /\ ret.status = "ok") =>
        2 * CostGap(ret.result, calculator.tariff_kwh)
            <= Tolerance + calculator.tariff_kwh

C3_Witness ==
    /\ ret.op = "calc"
    /\ ret.status = "ok"
    /\ calculator.tariff_kwh > 10 * TariffScale
    /\ Len(appliances) = MaxAppliances
    /\ CostGap(ret.result, calculator.tariff_kwh) > Tolerance

\* the sum of f over the appliances 1..i that are on
RECURSIVE SumOn(_, _, _, _)
SumOn(apps, period, factor, i) ==
    IF i = 0 THEN 0
    ELSE SumOn(apps, period, factor, i - 1)
         + (IF apps[i].is_on THEN apps[i].power * period * factor ELSE 0)

\* C4: the result has exactly one detail entry per appliance, in the
\* collection's order (duplicate names included); an off appliance gets 0
\* energy and 0 cost and adds nothing to the totals, so the unrounded totals
\* are the sums over the on appliances only.
C4_DetailPerAppliance ==
    (ret.op = "calc" /\ ret.status = "ok") =>
        LET details == ret.result.details
        IN  /\ Len(details) = Len(appliances)
            /\ \A i \in 1..Len(appliances) :
                   /\ details[i].name = appliances[i].name
                   /\ ~appliances[i].is_on =>
                          (details[i].consumption_kwh = 0 /\ details[i].cost = 0)
            /\ ret.acc.total_consumption_kwh =
                   SumOn(appliances, ret.period_hours, 1, Len(appliances))
            /\ ret.acc.total_cost =
                   SumOn(appliances, ret.period_hours, calculator.tariff_kwh,
                         Len(appliances))

C4_Witness ==
    /\ ret.op = "calc"
    /\ ret.status = "ok"
    /\ ret.period_hours > 0
    /\ calculator.tariff_kwh > 0
    /\ Len(appliances) = 2
    /\ appliances[1].name = appliances[2].name
    /\ ~appliances[1].is_on
    /\ appliances[2].is_on
    /\ ret.acc.total_cost > 0

\* C5: calculate_total_consumption_and_cost is idempotent: a call repeated
\* with the same period and nothing in between yields the same result, and a
\* call, successful or failing, leaves the appliances, the collection and the
\* tariff unchanged.
C5_CalcPure ==
    [][ret'.op = "calc" =>
          /\ appliances' = appliances
          /\ calculator' = calculator
          /\ ret'.again =>
                 (ret'.status = ret.status /\ ret'.result = ret.result)]_vars

C5_Witness ==
    /\ ret.op = "calc"
    /\ ret.status = "ok"
    /\ ret.again
    /\ ret.result.total_cost > 0
    /\ \E i \in 1..Len(appliances) : appliances[i].is_on

\* C6: the calculator's tariff is never negative: construction with a
\* negative tariff fails and creates no calculator, construction with a
\* non-negative tariff stores it unchanged, and setting a negative tariff
\* fails and leaves the stored tariff and the appliance collection unchanged.
C6_TariffNonNegative ==
    /\ [](calculator.exists => calculator.tariff_kwh >= 0)
    /\ [][/\ (ret'.op = "new_calculator" /\ ret'.value < 0) =>
                 (ret'.status = "ValueError" /\ ~calculator'.exists)
          /\ (ret'.op = "new_calculator" /\ ret'.value >= 0) =>
                 /\ ret'.status = "ok"
                 /\ calculator'.exists
                 /\ calculator'.tariff_kwh = ret'.value
          /\ (ret'.op = "set_tariff" /\ ret'.value < 0) =>
                 /\ ret'.status = "ValueError"
                 /\ calculator' = calculator
                 /\ appliances' = appliances]_vars

C6_Witness ==
    /\ ret.op = "set_tariff"
    /\ ret.value < 0
    /\ ret.status = "ValueError"
    /\ calculator.tariff_kwh > 0
    /\ Len(appliances) > 0

\* ---------------------------------------------------------------- main()
\* what the user types at a numeric prompt and what float() makes of it
Typed(vs) == {[parses |-> FALSE, v |-> 0]} \cup {[parses |-> TRUE, v |-> x] : x \in vs}

\* the answers to the eight prompts of get_user_input
UserAnswers ==
    [tariff : Typed({-15, 0, 15}),
     period_hours : Typed({-HoursScale, 0, 2 * HoursScale}),
     power_iron : Typed({0, 2000}),
     steam_booster : BOOLEAN,
     power_tv : Typed({150}),
     screen_tv : Typed({0, 55}),
     power_washer : Typed({-5, 1}),
     capacity_washer : Typed({7})]

IronArgs(u) ==
    [kind |-> "Iron", name |-> "Utyug", power |-> u.power_iron.v,
     steam_booster |-> u.steam_booster, screen_size_inches |-> 0,
     capacity_kg |-> 0]

TVArgs(u) ==
    [kind |-> "TV", name |-> "Televizor", power |-> u.power_tv.v,
     steam_booster |-> FALSE, screen_size_inches |-> u.screen_tv.v,
     capacity_kg |-> 0]

WasherArgs(u) ==
    [kind |-> "WashingMachine", name |-> "Stiralnaya mashina",
     power |-> u.power_washer.v, steam_booster |-> FALSE,
     screen_size_inches |-> 0, capacity_kg |-> u.capacity_washer.v]

\* get_user_input's try block runs to its return: every float() parses and
\* every constructor accepts its arguments
InputAccepted(u) ==
    /\ u.tariff.parses
    /\ u.period_hours.parses
    /\ u.power_iron.parses
    /\ Construct(IronArgs(u)) = "ok"
    /\ u.power_tv.parses
    /\ u.screen_tv.parses
    /\ Construct(TVArgs(u)) = "ok"
    /\ u.power_washer.parses
    /\ u.capacity_washer.parses
    /\ Construct(WasherArgs(u)) = "ok"

\* the appliances_list get_user_input returns: all three turned on
AppliancesList(u) ==
    LET objs == <<NewObject(IronArgs(u)), NewObject(TVArgs(u)),
                  NewObject(WasherArgs(u))>>
    IN  [i \in 1..3 |-> [objs[i] EXCEPT !.is_on = TRUE]]

\* next((app for app in appliance_objects if app.name == name), None): the
\* position of the first appliance of that name, 0 for None
FirstByName(apps, name) ==
    IF \E i \in 1..Len(apps) : apps[i].name = name
    THEN CHOOSE i \in 1..Len(apps) :
             /\ apps[i].name = name
             /\ \A j \in 1..(i - 1) : apps[j].name # name
    ELSE 0

\* the save_record arguments main() builds for detail entry i
RecordFor(i) ==
    LET detail == calculation_results.result.details[i]
        appliance_obj == appliances[FirstByName(appliances, detail.name)]
    IN  [appliance_name |-> detail.name,
         power_consumption_watts |-> appliance_obj.power,
         hours_used |-> user_input.period_hours,
         consumption_kwh |-> detail.consumption_kwh,
         cost |-> detail.cost,
         tariff |-> calculator.tariff_kwh]

\* rows left in the file by earlier runs of the program
EarlierRuns ==
    { <<>>,
      <<[id |-> 1, appliance_name |-> "Utyug", power_consumption_watts |-> 2000,
         hours_used |-> 4, consumption_kwh |-> 2000, cost |-> 30, tariff |-> 15,
         timestamp |-> 0]>> }

\* main() line 72-77: DatabaseManager() connects and creates the table, or
\* raises from _connect or from _create_table and db_manager stays None
OpenDatabase(outcome) ==
    /\ pc = "open_db"
    /\ db' = IF outcome = "connect_error" THEN db ELSE [db EXCEPT !.conn = "open"]
    /\ db_manager' = (outcome = "ok")
    /\ pc' = "input"
    /\ UNCHANGED <<appliances, calculator, ret, now, log, user_input,
                   calculation_results, detail_index, exit_status>>

\* main() line 80: get_user_input()
GetUserInput(u) ==
    /\ pc = "input"
    /\ IF InputAccepted(u)
       THEN /\ user_input' = [valid |-> TRUE, tariff |-> u.tariff.v,
                              period_hours |-> u.period_hours.v]
            /\ appliances' = AppliancesList(u)
       ELSE /\ user_input' = NoInput
            /\ appliances' = <<>>
    /\ pc' = "check"
    /\ UNCHANGED <<calculator, ret, db, now, log, db_manager,
                   calculation_results, detail_index, exit_status>>

\* main() line 82-84: the early return on rejected input
CheckInput ==
    /\ pc = "check"
    /\ IF ~user_input.valid \/ Len(appliances) = 0
       THEN pc' = "exit" /\ exit_status' = "normal"
       ELSE pc' = "construct" /\ exit_status' = exit_status
    /\ UNCHANGED <<appliances, calculator, ret, db, now, log, db_manager,
                   user_input, calculation_results, detail_index>>

\* main() line 87-88: EnergyCalculator(...), outside every try block: its
\* ValueError leaves main()
ConstructCalculator ==
    /\ pc = "construct"
    /\ IF InitTariffCheck(user_input.tariff) = "ok"
       THEN /\ calculator' = [exists |-> TRUE, tariff_kwh |-> user_input.tariff]
            /\ pc' = "calc"
            /\ exit_status' = exit_status
       ELSE /\ calculator' = calculator
            /\ pc' = "exit"
            /\ exit_status' = "ValueError"
    /\ UNCHANGED <<appliances, ret, db, now, log, db_manager, user_input,
                   calculation_results, detail_index>>

\* main() line 92-96: the calculation and display_results; a ValueError goes
\* to the handler of line 136
RunCalculation ==
    /\ pc = "calc"
    /\ LET r == CalculateTotalConsumptionAndCost(appliances,
                    calculator.tariff_kwh, user_input.period_hours)
       IN  /\ calculation_results' = r
           /\ pc' = IF r.status # "ok" THEN "finally"
                    ELSE IF ~db_manager THEN "doc"
                    ELSE IF Len(r.result.details) = 0 THEN "list"
                    ELSE "save"
    /\ detail_index' = 1
    /\ UNCHANGED <<appliances, calculator, ret, db, now, log, db_manager,
                   user_input, exit_status>>

\* variant: a save loop without its own try, left on the first failed save
AfterSaveAborting(status, i, n) ==
    IF status # "ok" THEN "finally"
    ELSE IF i < n THEN "save" ELSE "list"

\* where main() goes after the save of detail i of n: an exception of
\* save_record is caught inside the loop (line 110)
AfterSave(status, i, n) == IF i < n THEN "save" ELSE "list"

\* main() line 97-113: one iteration of the save loop
SaveDetail(ts, outcome) ==
    /\ pc = "save"
    /\ LET name == calculation_results.result.details[detail_index].name
           n == Len(calculation_results.result.details)
       IN  IF FirstByName(appliances, name) # 0
           THEN /\ db' = SaveRecord(db, RecordFor(detail_index), ts, outcome)
                /\ now' = ts
                /\ log' = Append(log,
                       [op |-> "save_record", status |-> SaveStatus(db, outcome),
                        detail |-> detail_index,
                        row |-> Row(db, RecordFor(detail_index), ts)])
                /\ pc' = AfterSave(SaveStatus(db, outcome), detail_index, n)
           ELSE /\ UNCHANGED <<db, now, log>>
                /\ pc' = AfterSave("ok", detail_index, n)
    /\ detail_index' = detail_index + 1
    /\ UNCHANGED <<appliances, calculator, ret, db_manager, user_input,
                   calculation_results, exit_status>>

\* main() line 116-122: the latest records are read and printed
ListRecords(outcome) ==
    /\ pc = "list"
    /\ GetAllRecords(db, outcome) # {}
    /\ log' = Append(log, [op |-> "get_all_records"])
    /\ pc' = "doc"
    /\ UNCHANGED <<appliances, calculator, ret, db, now, db_manager, user_input,
                   calculation_results, detail_index, exit_status>>

\* how a save_report call can end: the file is written; document.save or
\* workbook.save raises and the method prints it; a statement before the
\* method's try block raises and the error leaves the method
ReportOutcomes == {"saved", "save_error", "raised"}

\* main() line 129-130: DocReport(...).save_report(...)
DocReportStep(outcome) ==
    /\ pc = "doc"
    /\ log' = Append(log, [op |-> "doc_report", status |-> outcome])
    /\ pc' = IF outcome = "raised" THEN "finally" ELSE "xls"
    /\ UNCHANGED <<appliances, calculator, ret, db, now, db_manager, user_input,
                   calculation_results, detail_index, exit_status>>

\* main() line 133-134: XlsReport(...).save_report(...)
XlsReportStep(outcome) ==
    /\ pc = "xls"
    /\ log' = Append(log, [op |-> "xls_report", status |-> outcome])
    /\ pc' = "finally"
    /\ UNCHANGED <<appliances, calculator, ret, db, now, db_manager, user_input,
                   calculation_results, detail_index, exit_status>>

\* main() line 136-143: the handlers print, the finally clause closes the
\* connection when there is a manager, and main() returns
Finally ==
    /\ pc = "finally"
    /\ IF db_manager
       THEN /\ db' = CloseConn(db)
            /\ log' = Append(log, [op |-> "close"])
       ELSE UNCHANGED <<db, log>>
    /\ pc' = "exit"
    /\ exit_status' = "normal"
    /\ UNCHANGED <<appliances, calculator, ret, now, db_manager, user_input,
                   calculation_results, detail_index>>

MainInit ==
    /\ pc = "open_db"
    /\ db \in {[conn |-> "none", committed |-> rows, pending |-> <<>>] :
                   rows \in EarlierRuns}
    /\ now = 1
    /\ log = <<>>
    /\ ret = NoCall
    /\ appliances = <<>>
    /\ calculator = [exists |-> FALSE, tariff_kwh |-> 0]
    /\ db_manager = FALSE
    /\ user_input = NoInput
    /\ calculation_results = NoResults
    /\ detail_index = 0
    /\ exit_status = "running"

MainNext ==
    \/ \E outcome \in {"ok", "connect_error", "create_table_error"} :
           OpenDatabase(outcome)
    \/ pc = "input" /\ \E u \in UserAnswers : GetUserInput(u)
    \/ CheckInput
    \/ ConstructCalculator
    \/ RunCalculation
    \/ \E ts \in ClockReadings, outcome \in SaveOutcomes : SaveDetail(ts, outcome)
    \/ \E outcome \in {"ok", "error"} : ListRecords(outcome)
    \/ \E outcome \in ReportOutcomes : DocReportStep(outcome)
    \/ \E outcome \in ReportOutcomes : XlsReportStep(outcome)
    \/ Finally

SpecMain == MainInit /\ [][MainNext]_vars

\* the calls of one kind made so far
Calls(op) == SelectSeq(log, LAMBDA c : c.op = op)

\* C7: in every run of main() in which the database manager was opened, the
\* connection is closed exactly once before the process exits, on every exit
\* path: normal completion, rejected input, a failure constructing the
\* calculator, an error during calculation, saving or reporting.
C7_ClosedOnExit ==
    (pc = "exit" /\ db_manager) =>
        (Len(Calls("close")) = 1 /\ db.conn = "closed")

\* C8: main() always terminates normally: every invalid input (unparsable
\* number, non-positive power or attribute, negative tariff, negative
\* period) is handled and the run never ends with an unhandled error, and
\* the calculation is never reached with rejected input.
C8_NormalExit ==
    /\ pc = "exit" => exit_status = "normal"
    /\ pc \in {"construct", "calc"} => user_input.valid

\* C9: a failure of save_record for one detail entry does not stop the save
\* loop: save_record is attempted exactly once for every detail entry, in
\* order, whichever earlier saves failed, and the records of the saves that
\* succeeded are all in the store afterwards.
C9_EverySaveAttempted ==
    LET saves == Calls("save_record")
    IN  /\ pc = "save" => Len(saves) = detail_index - 1
        /\ (db_manager /\ calculation_results.status = "ok" /\ pc # "save") =>
               Len(saves) = Len(calculation_results.result.details)
        /\ \A k \in 1..Len(saves) :
               /\ saves[k].detail = k
               /\ saves[k].row.appliance_name =
                      calculation_results.result.details[k].name
               /\ saves[k].row.consumption_kwh =
                      calculation_results.result.details[k].consumption_kwh
               /\ saves[k].row.cost = calculation_results.result.details[k].cost
               /\ saves[k].status = "ok" =>
                      \E j \in 1..Len(db.committed) : db.committed[j] = saves[k].row

C9_Witness ==
    /\ pc = "exit"
    /\ Len(Calls("save_record")) = 3
    /\ Calls("save_record")[1].status = "error"
    /\ Calls("save_record")[2].status = "ok"
    /\ Calls("save_record")[3].status = "error"
    /\ Len(db.committed) > 1

\* the position in the log of the first call of one kind, 0 when there is none
FirstCall(op) ==
    IF \E k \in 1..Len(log) : log[k].op = op
    THEN CHOOSE k \in 1..Len(log) :
             log[k].op = op /\ \A j \in 1..(k - 1) : log[j].op # op
    ELSE 0

\* C11: if DatabaseManager initialization fails (connection or table
\* creation), main() continues without persistence: with valid input the
\* calculation is performed and both reports are attempted, and save_record,
\* get_all_records and close are never called in that run.
C11_ContinuesWithoutStore ==
    (pc # "open_db" /\ ~db_manager) =>
        /\ Len(Calls("save_record")) = 0
        /\ Len(Calls("get_all_records")) = 0
        /\ Len(Calls("close")) = 0
        /\ (/\ pc = "exit"
            /\ user_input.valid
            /\ user_input.tariff >= 0
            /\ user_input.period_hours >= 0) =>
               /\ calculation_results.status = "ok"
               /\ Len(Calls("doc_report")) = 1
               /\ Len(Calls("xls_report")) = 1

\* C12: in a run of main() that reaches reporting, a failure while producing
\* the DOCX report does not prevent the XLSX report from being attempted:
\* XlsReport.save_report is always called after DocReport.save_report,
\* whatever the outcome of the first.
C12_XlsAfterDoc ==
    (pc \in {"finally", "exit"} /\ FirstCall("doc_report") # 0) =>
        /\ Len(Calls("xls_report")) = 1
        /\ FirstCall("doc_report") < FirstCall("xls_report")

\* ------------------------------- main() from line 91, over any collection
\* the appliances a constructor accepts, on or off
ValidObjects ==
    { [NewObject(a) EXCEPT !.is_on = on] :
          a \in {x \in ApplianceArgs : Construct(x) = "ok"}, on \in BOOLEAN }

\* the lists EnergyCalculator accepts: any order, names may repeat
Collections == UNION { [1..n -> ValidObjects] : n \in 1..MaxAppliances }

\* main() at line 91: the store is open, the calculator is built over the
\* collection with a valid tariff and period
PipelineInit ==
    /\ pc = "calc"
    /\ appliances \in Collections
    /\ \E t \in {0, 15} : calculator = [exists |-> TRUE, tariff_kwh |-> t]
    /\ \E h \in {0, 2 * HoursScale} :
           user_input = [valid |-> TRUE, tariff |-> calculator.tariff_kwh,
                         period_hours |-> h]
    /\ db = [conn |-> "open", committed |-> <<>>, pending |-> <<>>]
    /\ db_manager = TRUE
    /\ now = 1
    /\ log = <<>>
    /\ ret = NoCall
    /\ calculation_results = NoResults
    /\ detail_index = 0
    /\ exit_status = "running"

PipelineNext ==
    \/ RunCalculation
    \/ \E ts \in ClockReadings, outcome \in SaveOutcomes : SaveDetail(ts, outcome)
    \/ \E outcome \in {"ok", "error"} : ListRecords(outcome)
    \/ \E outcome \in ReportOutcomes : DocReportStep(outcome)
    \/ \E outcome \in ReportOutcomes : XlsReportStep(outcome)
    \/ Finally

SpecPipeline == PipelineInit /\ [][PipelineNext]_vars

DbInit ==
    /\ db = [conn |-> "open", committed |-> <<>>, pending |-> <<>>]
    /\ now = 0
    /\ log = <<>>
    /\ ret = NoCall
    /\ appliances = <<>>
    /\ calculator = [exists |-> FALSE, tariff_kwh |-> 0]
    /\ pc = "idle"
    /\ db_manager = TRUE
    /\ user_input = NoInput
    /\ calculation_results = NoResults
    /\ detail_index = 0
    /\ exit_status = "running"

DbNext ==
    \/ \E f \in RecordArgs, ts \in ClockReadings, outcome \in SaveOutcomes :
           /\ DbSave(f, ts, outcome)
           /\ UNCHANGED <<appliances, calculator, mainVars>>
    \/ \E outcome \in {"ok", "error"} :
           /\ DbGetAll(outcome)
           /\ UNCHANGED <<appliances, calculator, mainVars>>
    \/ DbClose /\ UNCHANGED <<appliances, calculator, mainVars>>

SpecDb == DbInit /\ [][DbNext]_vars

\* the save_record calls made so far, in call order
Saves == SelectSeq(log, LAMBDA c : c.op = "save_record")

\* C10: after any sequence of successful save_record calls, get_all_records
\* returns every saved record exactly once, newest first, so its first
\* element is the record of the most recent save_record call, with a
\* store-assigned identifier and timestamp, also when several saves received
\* the same timestamp; on an empty store it returns an empty sequence.
C10_NewestFirst ==
    (/\ ret.op = "get_all_records"
     /\ ret.status = "ok"
     /\ \A k \in 1..Len(Saves) : Saves[k].status = "ok") =>
        /\ Len(ret.records) = Len(Saves)
        /\ \A k \in 1..Len(Saves) :
               ret.records[Len(Saves) + 1 - k] = Saves[k].row

====
